---- MODULE Spec2Model ----
(***************************************************************************)
(* Model of the MCP test server (src/app.py): the JSON-RPC method router,  *)
(* the progress relay, the stream composer and the two transports          *)
(* (POST /mcp, GET /sse + POST /message/{session_id}).                     *)
(*                                                                         *)
(* Scheduling is asyncio's: one event loop, coroutines interleave only at  *)
(* suspension points (await of a queue get, asyncio.sleep, a generator's   *)
(* yield).  Every action below is the code between two suspension points.  *)
(***************************************************************************)
EXTENDS Integers, Sequences, FiniteSets, TLC

(***************************************************************************)
(* Bounds of the model.                                                    *)
(***************************************************************************)
MaxEvents == 4          \* requests of the clients (GET /sse, POST /message,
                        \* POST /mcp counted twice) and 30s timeouts in one
                        \* behaviour
MaxMcp == 1             \* POST /mcp requests that open a stream

Sessions == 1..MaxEvents
McpRequests == {100 + k : k \in 1..MaxMcp}
Streams == Sessions \cup McpRequests

(***************************************************************************)
(* Python values.  Every value is a record of the same three fields so     *)
(* that values of different Python types can be compared.                  *)
(***************************************************************************)
None == [type |-> "NoneType", i |-> 0, s |-> ""]
PyInt(n) == [type |-> "int", i |-> n, s |-> ""]
PyStr(x) == [type |-> "str", i |-> 0, s |-> x]
\* a key that is missing from a dict (dict.get then yields its default)
Absent == [type |-> "absent", i |-> 0, s |-> ""]

\* dict.get(key, default) for a key whose value (or Absent) is v
Get(v, default) == IF v = Absent THEN default ELSE v

\* Python truthiness of a scalar: None, 0 and "" are falsy
Truthy(v) ==
    CASE v.type = "NoneType" -> FALSE
      [] v.type = "int" -> v.i # 0
      [] v.type = "str" -> v.s # ""
      [] OTHER -> FALSE

\* json.dumps of a scalar: the text and whether it is written in quotes
json_dumps_scalar(v) ==
    CASE v.type = "NoneType" -> [quoted |-> FALSE, text |-> "null"]
      [] v.type = "int" -> [quoted |-> FALSE, text |-> ToString(v.i)]
      [] OTHER -> [quoted |-> TRUE, text |-> v.s]

(***************************************************************************)
(* Request bodies.  json says what json.loads(body) does with the bytes:   *)
(*   "malformed"    text that is not JSON      -> json.JSONDecodeError     *)
(*   "undecodable"  bytes that are not UTF-8   -> UnicodeDecodeError       *)
(*   "null","array" valid JSON, not an object  -> None, a list             *)
(*   "object"       a JSON object              -> a dict (the message)     *)
(* params.kind / meta.kind / arguments.kind: "absent" (no such key),       *)
(* "dict", "str" (a JSON string) or "null".                                *)
(***************************************************************************)
NoArgs ==
    [kind |-> "absent", a |-> Absent, b |-> Absent, x |-> Absent, y |-> Absent,
     steps |-> Absent]
Args(a, b, steps) == [NoArgs EXCEPT !.kind = "dict", !.a = a, !.b = b, !.steps = steps]
MulArgs(x, y) == [NoArgs EXCEPT !.kind = "dict", !.x = x, !.y = y]
NoMeta == [kind |-> "absent", progressToken |-> Absent]
Meta(tok) == [kind |-> "dict", progressToken |-> tok]
NoParams == [kind |-> "absent", meta |-> NoMeta, name |-> Absent, arguments |-> NoArgs]
Params(meta, name, arguments) ==
    [kind |-> "dict", meta |-> meta, name |-> name, arguments |-> arguments]
Body(json, method, id, params) ==
    [json |-> json, method |-> method, id |-> id, params |-> params]
Message(method, id, params) == Body("object", PyStr(method), id, params)

NoBody == Body("none", Absent, Absent, NoParams)

\* tools/call search_with_progress with steps and an optional progressToken
SearchCall(id, steps, tok) ==
    Message("tools/call", id,
            Params(IF tok = Absent THEN NoMeta ELSE Meta(tok),
                   PyStr("search_with_progress"), Args(Absent, Absent, steps)))

ToolCall(id, name, arguments) ==
    Message("tools/call", id, Params(NoMeta, PyStr(name), arguments))


(***************************************************************************)
(* The bodies the clients send.                                            *)
(***************************************************************************)
B_malformed == Body("malformed", Absent, Absent, NoParams)
B_undecodable == Body("undecodable", Absent, Absent, NoParams)
B_null == Body("null", Absent, Absent, NoParams)
B_array == Body("array", Absent, Absent, NoParams)
M_initialize == Message("initialize", PyInt(1), NoParams)
M_list == Message("tools/list", PyStr("1"), NoParams)
M_initialized == Message("notifications/initialized", Absent, NoParams)
M_unknown == Message("resources/list", PyInt(2), NoParams)
M_unknown_noid == Message("notifications/cancelled", Absent, NoParams)
M_add == ToolCall(PyInt(3), "add_numbers", Args(PyInt(2), PyInt(3), Absent))
M_add_illtyped == ToolCall(PyInt(4), "add_numbers", Args(PyStr("x"), PyInt(1), Absent))
M_multiply == ToolCall(PyStr("4"), "multiply_numbers", MulArgs(PyInt(2), PyInt(3)))
M_greeting == ToolCall(PyInt(4), "get_greeting", [NoArgs EXCEPT !.kind = "dict"])
M_unknown_tool == ToolCall(PyStr("5"), "no_such_tool", NoArgs)
M_params_str == Message("tools/call", PyInt(6), [NoParams EXCEPT !.kind = "str"])
M_params_null == Message("tools/call", PyInt(7), [NoParams EXCEPT !.kind = "null"])
M_meta_str ==
    Message("tools/call", PyInt(8),
            Params([NoMeta EXCEPT !.kind = "str"], PyStr("add_numbers"), NoArgs))
M_search_illtyped == SearchCall(PyStr("7"), PyStr("x"), PyStr("T"))
M_args_str ==
    ToolCall(PyInt(11), "multiply_numbers", [NoArgs EXCEPT !.kind = "str"])

\* The clients of one behaviour send the bodies of one workload.
\* progress: with a token, without one, with two different ones
ProgressWorkloads ==
    {{SearchCall(PyInt(9), PyInt(3), PyStr("T")), M_initialized},
     {SearchCall(PyStr("9"), PyInt(2), Absent), M_add},
     {SearchCall(PyInt(9), PyInt(2), PyStr("T")),
      SearchCall(PyInt(10), PyInt(1), PyStr("U"))}}
\* tokens that are falsy in Python, a null token, no token
TokenWorkloads ==
    {{SearchCall(PyInt(9), PyInt(1), PyInt(0)),
      SearchCall(PyInt(9), PyInt(1), PyStr("")),
      SearchCall(PyInt(9), PyInt(1), Absent)},
     {SearchCall(PyInt(9), PyInt(1), None),
      SearchCall(PyInt(10), PyInt(2), PyStr("T"))}}
\* the number of steps
StepWorkloads ==
    {{SearchCall(PyInt(9), PyInt(6), PyStr("T"))},
     {SearchCall(PyInt(9), PyInt(3), PyStr("T"))},
     {SearchCall(PyInt(9), PyInt(1), PyInt(0)), M_add}}
\* more steps than there are stages, none, fewer than none
ClampWorkloads ==
    {{SearchCall(PyInt(9), PyInt(7), PyStr("T")),
      SearchCall(PyInt(10), PyInt(-1), PyStr("U"))},
     {SearchCall(PyInt(9), PyInt(0), PyStr("T")), M_add}}
\* bodies that are not messages
HttpWorkloads ==
    {{B_malformed, B_undecodable, M_add},
     {B_null, B_array, M_params_null},
     {B_malformed, SearchCall(PyInt(9), PyInt(1), PyStr("T"))}}
\* sessions that are closed by a message whose params or _meta is not an
\* object, by the client, or not at all
SessionWorkloads ==
    {{M_params_str, SearchCall(PyInt(9), PyInt(2), PyStr("T"))},
     {M_meta_str, M_add},
     {M_initialize, M_initialized}}
\* messages with and without a response, with progress, and one that
\* closes its session
LiveWorkloads ==
    {{M_initialize, M_initialized},
     {M_params_str, SearchCall(PyInt(9), PyInt(1), PyStr("T"))}}
\* the branches of the router: unknown methods and tools, handlers that
\* raise, messages without an id, every registered tool
RouterWorkloads ==
    {{M_unknown, M_unknown_tool},
     {M_add_illtyped, M_add},
     {M_initialize, M_list, M_unknown_noid},
     {M_search_illtyped, SearchCall(PyStr("s"), PyInt(1), PyStr("T"))},
     {M_args_str, M_multiply, M_greeting}}

Workloads ==
    ProgressWorkloads \cup TokenWorkloads \cup StepWorkloads \cup ClampWorkloads
        \cup HttpWorkloads \cup SessionWorkloads \cup RouterWorkloads
        \cup LiveWorkloads

Bodies == UNION Workloads

(***************************************************************************)
(* json.loads(body): which exception it raises, if any.                    *)
(***************************************************************************)
json_loads_error(body) ==
    CASE body.json = "malformed" -> "JSONDecodeError"
      [] body.json = "undecodable" -> "UnicodeDecodeError"
      [] OTHER -> "none"

(***************************************************************************)
(* MCPServer: responses.                                                   *)
(***************************************************************************)
ProgressMessages ==
    <<"search started", "analysing keyword", "querying database",
      "filtering results", "sorting results", "preparing final result">>

ErrorResponse(request_id, code, message) ==
    [jsonrpc |-> "2.0", id |-> request_id,
     error |-> [code |-> code, message |-> message]]

\* mutant: the result has no content
ToolResult_no_content(request_id, text) ==
    [jsonrpc |-> "2.0", id |-> request_id, result |-> [content |-> <<>>]]
\* the success response of handle_call_tool
ToolResult(request_id, text) ==
    [jsonrpc |-> "2.0", id |-> request_id,
     result |-> [content |-> <<[type |-> "text", text |-> text]>>]]

handle_initialize(request_id) ==
    [jsonrpc |-> "2.0", id |-> request_id,
     result |-> [protocolVersion |-> "2024-11-05",
                 serverInfo |-> "test-mcp-server"]]

handle_list_tools(request_id) ==
    [jsonrpc |-> "2.0", id |-> request_id,
     result |-> [tools |-> <<"add_numbers", "multiply_numbers",
                             "get_greeting", "search_with_progress">>]]

\* what handle_request reads from the message before it dispatches
\* mutant: the id is echoed as text
RequestId_as_text(message) ==
    IF message.id = Absent THEN None
    ELSE PyStr(json_dumps_scalar(message.id).text)
\* request_id = message.get("id")
RequestId(message) == Get(message.id, None)
RequestParams(message) ==
    IF message.params.kind = "absent" THEN [NoParams EXCEPT !.kind = "dict"]
    ELSE message.params
ProgressToken(message) == Get(RequestParams(message).meta.progressToken, None)
ToolName(message) == Get(RequestParams(message).name, None)
Arguments(message) ==
    IF RequestParams(message).arguments.kind = "absent"
    THEN [NoArgs EXCEPT !.kind = "dict"]
    ELSE RequestParams(message).arguments

\* message.get / params.get / meta.get raise AttributeError when the
\* receiver is not a dict: the exception leaves handle_request
RequestRaises(message) ==
    \/ message.json # "object"
    \/ message.params.kind \notin {"absent", "dict"}
    \/ message.params.meta.kind \notin {"absent", "dict"}

IsSearch(message) ==
    /\ ~RequestRaises(message)
    /\ message.method = PyStr("tools/call")
    /\ ToolName(message) = PyStr("search_with_progress")

\* steps = arguments.get("steps", 5)
Steps(message) == Get(Arguments(message).steps, PyInt(5))

\* the exceptions search_with_progress raises before its loop (caught by
\* handle_call_tool): arguments.get on a non-dict, min(steps, 6) on a
\* non-number
SearchRaises(message) ==
    \/ Arguments(message).kind # "dict"
    \/ Steps(message).type # "int"

Min(a, b) == IF a <= b THEN a ELSE b

\* mutant: the loop runs as many times as the request says
TotalSteps_unbounded(message) == Steps(message).i
\* total_steps = min(steps, len(progress_messages))
TotalSteps(message) == Min(Steps(message).i, Len(ProgressMessages))

SearchResult(message) ==
    ToolResult(RequestId(message),
               [fmt |-> "search", n |-> Min(TotalSteps(message), 6)])

\* a + b raises TypeError unless both are numbers or both are strings
AddRaises(a, b) == ~(a.type = b.type /\ a.type \in {"int", "str"})
\* x * y raises TypeError unless both are numbers, or one is a string and
\* the other a number (repetition)
MulRaises(x, y) ==
    ~({x.type, y.type} \subseteq {"int", "str"} /\ {x.type, y.type} # {"str"})

\* the exceptions raised inside the try block of handle_call_tool
HandlerRaises(tool_name, arguments) ==
    CASE tool_name = PyStr("add_numbers") ->
           \/ arguments.kind # "dict"
           \/ AddRaises(Get(arguments.a, PyInt(0)), Get(arguments.b, PyInt(0)))
      [] tool_name = PyStr("multiply_numbers") ->
           \/ arguments.kind # "dict"
           \/ MulRaises(Get(arguments.x, PyInt(0)), Get(arguments.y, PyInt(0)))
      [] tool_name = PyStr("get_greeting") -> arguments.kind # "dict"
      [] tool_name = PyStr("search_with_progress") ->
           \/ arguments.kind # "dict"
           \/ Get(arguments.steps, PyInt(5)).type # "int"
      [] OTHER -> FALSE

\* handle_call_tool for the tools that do not suspend
handle_call_tool(request_id, tool_name, arguments) ==
    CASE tool_name = PyStr("add_numbers") ->
           IF arguments.kind # "dict"
           THEN ErrorResponse(request_id, -32603, "Tool execution error")
           ELSE LET a == Get(arguments.a, PyInt(0))
                    b == Get(arguments.b, PyInt(0))
                IN IF AddRaises(a, b)
                   THEN ErrorResponse(request_id, -32603, "Tool execution error")
                   ELSE ToolResult(request_id, [fmt |-> "add", n |-> a.i + b.i])
      [] tool_name = PyStr("multiply_numbers") ->
           IF arguments.kind # "dict"
           THEN ErrorResponse(request_id, -32603, "Tool execution error")
           ELSE LET x == Get(arguments.x, PyInt(0))
                    y == Get(arguments.y, PyInt(0))
                IN IF MulRaises(x, y)
                   THEN ErrorResponse(request_id, -32603, "Tool execution error")
                   ELSE ToolResult(request_id, [fmt |-> "multiply", n |-> x.i * y.i])
      [] tool_name = PyStr("get_greeting") ->
           IF arguments.kind # "dict"
           THEN ErrorResponse(request_id, -32603, "Tool execution error")
           ELSE ToolResult(request_id, [fmt |-> "greeting", n |-> 0])
      [] OTHER -> ErrorResponse(request_id, -32601, "Unknown tool")

\* mutant: a message with an unknown method is dropped like a notification
MethodNotFound_dropped(request_id) == None
\* the else branch of handle_request
MethodNotFound(request_id) ==
    ErrorResponse(request_id, -32601, "Method not found")

\* handle_request for every message that does not reach the step loop of
\* search_with_progress: the response, or None
handle_request(message) ==
    LET method == message.method
        request_id == RequestId(message)
    IN CASE method = PyStr("initialize") -> handle_initialize(request_id)
         [] method = PyStr("tools/list") -> handle_list_tools(request_id)
         [] method = PyStr("tools/call") ->
              IF IsSearch(message)
              THEN IF SearchRaises(message)
                   THEN ErrorResponse(request_id, -32603, "Tool execution error")
                   ELSE SearchResult(message)
              ELSE handle_call_tool(request_id, ToolName(message), Arguments(message))
         [] method = PyStr("notifications/initialized") -> None
         [] OTHER -> MethodNotFound(request_id)

\* mutant: handle_call_tool has no except clause
task_exception_uncaught(message) ==
    \/ RequestRaises(message)
    \/ /\ message.method = PyStr("tools/call")
       /\ HandlerRaises(ToolName(message), Arguments(message))
\* process_request ends with an exception: the ones handle_request raises
\* outside the try block of handle_call_tool
task_exception(message) == RequestRaises(message)

(***************************************************************************)
(* progress_callback of the two transports: the notification it puts on    *)
(* the progress queue.                                                     *)
(***************************************************************************)
\* stream_response.progress_callback (POST /mcp): the field is added when
\* the token is not None
mcp_progress_callback(progress, total, message, progress_token) ==
    LET params == [progress |-> PyInt(progress), total |-> PyInt(total),
                   message |-> PyStr(message)]
    IN [jsonrpc |-> "2.0", method |-> "notifications/progress",
        params |-> IF progress_token # None
                   THEN [k \in DOMAIN params \cup {"progressToken"} |->
                           IF k = "progressToken" THEN progress_token ELSE params[k]]
                   ELSE params]

\* mutant: the field is deleted for every falsy token
sse_progress_callback_truthy(progress, total, message, progress_token) ==
    LET params == [progressToken |-> progress_token,
                   progress |-> PyInt(progress), total |-> PyInt(total),
                   message |-> PyStr(message)]
    IN [jsonrpc |-> "2.0", method |-> "notifications/progress",
        params |-> IF ~Truthy(progress_token)
                   THEN [k \in DOMAIN params \ {"progressToken"} |-> params[k]]
                   ELSE params]

\* event_generator.progress_callback (GET /sse): the field is set, and
\* deleted again when the token is None
sse_progress_callback(progress, total, message, progress_token) ==
    LET params == [progressToken |-> progress_token,
                   progress |-> PyInt(progress), total |-> PyInt(total),
                   message |-> PyStr(message)]
    IN [jsonrpc |-> "2.0", method |-> "notifications/progress",
        params |-> IF progress_token = None
                   THEN [k \in DOMAIN params \ {"progressToken"} |-> params[k]]
                   ELSE params]

progress_callback(s, progress, total, message, progress_token) ==
    IF s \in McpRequests
    THEN mcp_progress_callback(progress, total, message, progress_token)
    ELSE sse_progress_callback(progress, total, message, progress_token)

\* json.dumps of a notification or a response: the scalars of params and
\* the id become JSON text, the keys are kept
json_dumps(obj) ==
    [k \in DOMAIN obj |->
        CASE k = "id" -> json_dumps_scalar(obj[k])
          [] k = "params" -> [p \in DOMAIN obj[k] |-> json_dumps_scalar(obj[k][p])]
          [] OTHER -> obj[k]]

(***************************************************************************)
(* State.                                                                  *)
(***************************************************************************)
VARIABLES
    session_queues,      \* registry: session id -> its request queue
    session_sse_queues,  \* registry: session id -> its progress queue
    request_queue,       \* contents of each session's request_queue
    sse_queue,           \* contents of each stream's sse_queue
    pc,                  \* where each stream's generator is suspended
    task,                \* the background task each stream created last
    stream,              \* the events each generator has yielded so far
    http,                \* the reply to the POST handled in the last step
    events,              \* number of requests and timeouts so far
    workload,            \* the bodies the clients send in this behaviour
    produced             \* history: what the tasks of each stream have enqueued

vars == <<session_queues, session_sse_queues, request_queue, sse_queue, pc,
          task, stream, http, events, workload, produced>>

NoTask == [status |-> "none", message |-> NoBody, inv |-> 0, i |-> 0,
           response |-> None]
NoHttp == [endpoint |-> "none", sid |-> 0, status |-> 0, body |-> NoBody]

\* HTTP statuses: what FastAPI sends for a returned value, for the two
\* HTTPExceptions the code raises, and for an exception it does not catch
HTTP_OK == 200
HTTP_BAD_REQUEST == 400
HTTP_NOT_FOUND == 404
HTTP_SERVER_ERROR == 500

\* mutant: the queue is never looked at before the response is sent
empty_unchecked(q) == TRUE
\* asyncio.Queue.empty()
empty(q) == q = <<>>
\* mutant: the loop does not wait for the task
done_unchecked(t) == TRUE
\* asyncio.Task.done(): finished, with a result or with an exception
done(t) == t.status \in {"done", "failed"}

\* mutant: the response is yielded whatever it is
response_is_sent_always(response) == TRUE
\* if response is not None
response_is_sent(response) == response # None
\* after the response: the inner loop is left; event_generator is back at
\* its wait on the request queue, stream_response ends
after_response(s) == IF s \in Sessions THEN "waiting" ELSE "closed"
\* mutant: the timeout ends the generator
after_timeout_closed(s) == "closed"
\* after the keep-alive comment: the outer loop goes on
after_timeout(s) == "waiting"
\* mutant: the cancellation of the generator cancels its task
on_cancel_cancels_task(t) == [t EXCEPT !.status = "cancelled"]
\* except asyncio.CancelledError: the task is not touched
on_cancel(t) == t

\* mutant: an exception of one task ends every generator
exception_ends_all(s) == Streams
\* "await task" raises the exception of the task inside the generator of
\* its own stream: "except Exception" and the finally block of that
\* event_generator handle it, stream_response breaks off
exception_ends(s) == {s}

\* events, each tagged with the invocation (per stream, counted from 1)
\* that caused it; 0 for the events no invocation causes
EndpointEvent(session_id) ==
    [event |-> "endpoint",
     data |-> [path |-> "/message/", session_id |-> session_id], inv |-> 0]
MessageEvent(obj, inv) ==
    [event |-> "message", data |-> json_dumps(obj), inv |-> inv]
KeepAliveEvent == [event |-> "comment", data |-> [comment |-> "keep-alive"], inv |-> 0]

InitWith(W) ==
    /\ session_queues = <<>>
    /\ session_sse_queues = <<>>
    /\ request_queue = [s \in Sessions |-> <<>>]
    /\ sse_queue = [s \in Streams |-> <<>>]
    /\ pc = [s \in Streams |-> "idle"]
    /\ task = [s \in Streams |-> NoTask]
    /\ stream = [s \in Streams |-> <<>>]
    /\ http = NoHttp
    /\ events = 0
    /\ workload \in W
    /\ produced = [s \in Streams |-> <<>>]

Init == InitWith(SessionWorkloads)

(***************************************************************************)
(* GET /sse: event_generator.                                              *)
(***************************************************************************)
\* mutant: the request queue is not registered
register_request_queue_skipped(registry, session_id) == registry
\* session_queues[session_id] = request_queue
register_request_queue(registry, session_id) ==
    [k \in DOMAIN registry \cup {session_id} |->
        IF k = session_id THEN session_id ELSE registry[k]]
\* session_sse_queues[session_id] = sse_queue
register_sse_queue(registry, session_id) ==
    [k \in DOMAIN registry \cup {session_id} |->
        IF k = session_id THEN session_id ELSE registry[k]]
\* mutant: the finally block leaves the request queue registered
cleanup_request_queue_skipped(registry, session_id) == registry
\* if session_id in session_queues: del session_queues[session_id]
cleanup_request_queue(registry, session_id) ==
    [k \in DOMAIN registry \ {session_id} |-> registry[k]]
\* mutant: the finally block leaves the progress queue registered
cleanup_sse_queue_skipped(registry, session_id) == registry
\* if session_id in session_sse_queues: del session_sse_queues[session_id]
cleanup_sse_queue(registry, session_id) ==
    [k \in DOMAIN registry \ {session_id} |-> registry[k]]

\* the finally block
Cleanup(s) ==
    /\ session_queues' = cleanup_request_queue(session_queues, s)
    /\ session_sse_queues' = cleanup_sse_queue(session_sse_queues, s)

\* uuid4 gives every connection a fresh id: a session id is used once, and
\* ids are handed out in order
FreshId(s) == pc[s] = "idle" /\ \A k \in Sessions : k < s => pc[k] # "idle"

\* from the first line of the generator to its first yield, and on to the
\* wait on the request queue
Connect(s) ==
    /\ s \in Sessions /\ FreshId(s)
    /\ events < MaxEvents
    /\ events' = events + 1
    /\ session_queues' = register_request_queue(session_queues, s)
    /\ session_sse_queues' = register_sse_queue(session_sse_queues, s)
    /\ stream' = [stream EXCEPT ![s] = Append(@, EndpointEvent(s))]
    /\ pc' = [pc EXCEPT ![s] = "waiting"]
    /\ UNCHANGED <<request_queue, sse_queue, task, workload, produced>>
    /\ http' = NoHttp

\* request_queue.get() returns: the message is taken and its task created
TakeMessage(s) ==
    /\ s \in Sessions /\ pc[s] = "waiting"
    /\ request_queue[s] # <<>>
    /\ request_queue' = [request_queue EXCEPT ![s] = Tail(@)]
    /\ task' = [task EXCEPT ![s] =
                  [status |-> "created", message |-> Head(request_queue[s]),
                   inv |-> @.inv + 1, i |-> 0, response |-> None]]
    /\ pc' = [pc EXCEPT ![s] = "streaming"]
    /\ UNCHANGED <<session_queues, session_sse_queues, sse_queue, stream,
                   events, workload, produced>>
    /\ http' = NoHttp

\* the 30s wait times out: a keep-alive comment, and the wait again
KeepAlive(s) ==
    /\ s \in Sessions /\ pc[s] = "waiting"
    /\ request_queue[s] = <<>>
    /\ events < MaxEvents
    /\ events' = events + 1
    /\ stream' = [stream EXCEPT ![s] = Append(@, KeepAliveEvent)]
    /\ pc' = [pc EXCEPT ![s] = after_timeout(s)]
    /\ UNCHANGED <<session_queues, session_sse_queues, request_queue, sse_queue,
                   task, workload, produced>>
    /\ http' = NoHttp

\* the client disconnects while the generator is suspended: the generator
\* is cancelled, the finally block runs, the task is left alone
Disconnect(s) ==
    /\ s \in Sessions /\ pc[s] \in {"waiting", "streaming"}
    /\ Cleanup(s)
    /\ pc' = [pc EXCEPT ![s] = "closed"]
    /\ task' = [task EXCEPT ![s] = on_cancel(@)]
    /\ UNCHANGED <<request_queue, sse_queue, stream, events, workload, produced>>
    /\ http' = NoHttp

(***************************************************************************)
(* The stream composer: the inner loop of event_generator and the loop of  *)
(* stream_response.                                                        *)
(***************************************************************************)
\* one progress notification leaves the queue and is yielded
EmitHead(s) ==
    /\ stream' = [stream EXCEPT ![s] =
                    Append(@, MessageEvent(Head(sse_queue[s]).notification,
                                           Head(sse_queue[s]).inv))]
    /\ sse_queue' = [sse_queue EXCEPT ![s] = Tail(@)]

\* wait_for(sse_queue.get(), timeout=0.1) returns a notification
StreamProgress(s) ==
    /\ pc[s] = "streaming"
    /\ sse_queue[s] # <<>>
    /\ EmitHead(s)
    /\ UNCHANGED <<session_queues, session_sse_queues, request_queue, pc, task,
                   events, workload, produced>>
    /\ http' = NoHttp

\* task.done(): one turn of "while not sse_queue.empty()"
DrainProgress(s) ==
    /\ pc[s] = "streaming"
    /\ done(task[s])
    /\ ~empty(sse_queue[s])
    /\ EmitHead(s)
    /\ UNCHANGED <<session_queues, session_sse_queues, request_queue, pc, task,
                   events, workload, produced>>
    /\ http' = NoHttp

\* task.done() and the queue is empty: response = await task, the response
\* is yielded unless it is None, and the loop is left.  An exception of the
\* task is raised by "await task": the SSE session runs its finally block,
\* the /mcp stream breaks off.
SendResponse(s) ==
    /\ pc[s] = "streaming"
    /\ done(task[s])
    /\ empty(sse_queue[s])
    /\ IF task[s].status = "failed"
       THEN /\ pc' = [t \in Streams |->
                         IF t \in exception_ends(s) THEN "closed" ELSE pc[t]]
            /\ IF s \in Sessions
               THEN Cleanup(s)
               ELSE UNCHANGED <<session_queues, session_sse_queues>>
            /\ UNCHANGED stream
       ELSE /\ pc' = [pc EXCEPT ![s] = after_response(s)]
            /\ stream' = [stream EXCEPT ![s] =
                            IF response_is_sent(task[s].response)
                            THEN Append(@, MessageEvent(task[s].response, task[s].inv))
                            ELSE @]
            /\ UNCHANGED <<session_queues, session_sse_queues>>
    /\ UNCHANGED <<request_queue, sse_queue, task, events, workload, produced>>
    /\ http' = NoHttp

(***************************************************************************)
(* The background task: process_request -> handle_request.                 *)
(***************************************************************************)
\* mutant: total is the number of steps, so the last progress reaches it
Notification_total_is_steps(s, message, i) ==
    [notification |->
        progress_callback(s, i + 1, TotalSteps(message),
                          ProgressMessages[i + 1], ProgressToken(message)),
     inv |-> task[s].inv]

\* the notification of loop turn i (0-based), as the callback enqueues it
Notification(s, message, i) ==
    [notification |->
        progress_callback(s, i + 1, TotalSteps(message) + 1,
                          ProgressMessages[i + 1], ProgressToken(message)),
     inv |-> task[s].inv]

\* mutant: every callback puts its notifications on one queue
progress_queue_shared(s) == CHOOSE k \in Streams : \A j \in Streams : k <= j
\* the sse_queue the progress_callback of stream s closes over: the local
\* of its own event_generator or stream_response
progress_queue(s) == s

\* the task runs from its start to its first suspension, or to its end
TaskStart(s) ==
    /\ task[s].status = "created"
    /\ LET message == task[s].message
       IN IF task_exception(message)
          THEN /\ task' = [task EXCEPT ![s].status = "failed"]
               /\ UNCHANGED sse_queue
          ELSE IF IsSearch(message) /\ ~SearchRaises(message)
                  /\ 0 < TotalSteps(message)
          THEN /\ sse_queue' = [sse_queue EXCEPT ![progress_queue(s)] =
                                  Append(@, Notification(s, message, 0))]
               /\ task' = [task EXCEPT ![s].status = "sleeping", ![s].i = 1]
          ELSE /\ task' = [task EXCEPT ![s].status = "done",
                                       ![s].response = handle_request(message)]
               /\ UNCHANGED sse_queue
    /\ produced' = [produced EXCEPT ![s] =
                        IF sse_queue'[s] = sse_queue[s] THEN @
                        ELSE Append(@, sse_queue'[s][Len(sse_queue'[s])])]
    /\ UNCHANGED <<session_queues, session_sse_queues, request_queue, pc, stream,
                   events, workload>>
    /\ http' = NoHttp

\* asyncio.sleep(1) returns: the next turn of the loop, or the result
TaskStep(s) ==
    /\ task[s].status = "sleeping"
    /\ LET message == task[s].message
       IN IF task[s].i < TotalSteps(message)
          THEN /\ sse_queue' = [sse_queue EXCEPT ![progress_queue(s)] =
                                  Append(@, Notification(s, message, task[s].i))]
               /\ task' = [task EXCEPT ![s].i = @ + 1]
          ELSE /\ task' = [task EXCEPT ![s].status = "done",
                                       ![s].response = handle_request(message)]
               /\ UNCHANGED sse_queue
    /\ produced' = [produced EXCEPT ![s] =
                        IF sse_queue'[s] = sse_queue[s] THEN @
                        ELSE Append(@, sse_queue'[s][Len(sse_queue'[s])])]
    /\ UNCHANGED <<session_queues, session_sse_queues, request_queue, pc, stream,
                   events, workload>>
    /\ http' = NoHttp

(***************************************************************************)
(* POST /message/{session_id}: receive_message.                            *)
(***************************************************************************)
\* the logging of _meta raises on a body that is not an object (TypeError
\* or AttributeError) and on an object whose params is null (TypeError)
message_log_raises(message) ==
    \/ message.json # "object"
    \/ message.params.kind = "null"

receive_message_status(session_id, body) ==
    IF json_loads_error(body) = "JSONDecodeError" THEN HTTP_BAD_REQUEST
    ELSE IF json_loads_error(body) # "none" THEN HTTP_SERVER_ERROR
    ELSE IF message_log_raises(body) THEN HTTP_SERVER_ERROR
    ELSE IF session_id \notin DOMAIN session_queues THEN HTTP_NOT_FOUND
    ELSE HTTP_OK

\* mutant: one queue for all sessions
inbound_queue_shared(registry, session_id) ==
    registry[CHOOSE k \in DOMAIN registry : \A j \in DOMAIN registry : k <= j]
\* session_queues[session_id]
inbound_queue(registry, session_id) == registry[session_id]

\* mutant: the message is put at the front of the queue
put_front(q, message) == <<message>> \o q
\* asyncio.Queue.put(message) on an unbounded queue
put(q, message) == Append(q, message)

receive_message(session_id, body) ==
    /\ session_id \in Sessions /\ body \in workload
    \* an id that was issued, or one id that was not
    /\ pc[session_id] # "idle" \/ FreshId(session_id)
    /\ events < MaxEvents
    /\ events' = events + 1
    /\ LET status == receive_message_status(session_id, body)
       IN /\ http' = [endpoint |-> "/message", sid |-> session_id,
                      status |-> status, body |-> body]
          /\ request_queue' =
                IF status = HTTP_OK
                THEN [request_queue EXCEPT ![inbound_queue(session_queues, session_id)] =
                         put(@, body)]
                ELSE request_queue
    /\ UNCHANGED <<session_queues, session_sse_queues, sse_queue, pc, task,
                   stream, workload, produced>>

(***************************************************************************)
(* POST /mcp: mcp_streamable_http_endpoint and the start of                *)
(* stream_response.                                                        *)
(***************************************************************************)
\* the check for _meta raises TypeError on null and on null params; on a
\* list the "in" is False and params is not looked at
mcp_log_raises(message) ==
    \/ message.json = "null"
    \/ message.json = "object" /\ message.params.kind = "null"

mcp_status(body) ==
    IF json_loads_error(body) = "JSONDecodeError" THEN HTTP_BAD_REQUEST
    ELSE IF json_loads_error(body) # "none" THEN HTTP_SERVER_ERROR
    ELSE IF mcp_log_raises(body) THEN HTTP_SERVER_ERROR
    ELSE HTTP_OK

mcp_streamable_http_endpoint(r, body) ==
    /\ r \in McpRequests /\ body \in workload
    /\ pc[r] = "idle" /\ \A k \in McpRequests : k < r => pc[k] # "idle"
    \* a POST /mcp is a connection and a message: it counts for two
    /\ events + 2 <= MaxEvents
    /\ events' = events + 2
    /\ LET status == mcp_status(body)
       IN /\ http' = [endpoint |-> "/mcp", sid |-> r, status |-> status,
                      body |-> body]
          /\ IF status = HTTP_OK
             THEN /\ pc' = [pc EXCEPT ![r] = "streaming"]
                  /\ task' = [task EXCEPT ![r] =
                                [status |-> "created", message |-> body,
                                 inv |-> 1, i |-> 0, response |-> None]]
             ELSE UNCHANGED <<pc, task>>
    /\ UNCHANGED <<session_queues, session_sse_queues, request_queue, sse_queue,
                   stream, workload, produced>>

\* the client of a /mcp stream disconnects: the generator is cancelled
McpDisconnect(r) ==
    /\ r \in McpRequests /\ pc[r] = "streaming"
    /\ pc' = [pc EXCEPT ![r] = "closed"]
    /\ task' = [task EXCEPT ![r] = on_cancel(@)]
    /\ UNCHANGED <<session_queues, session_sse_queues, request_queue, sse_queue,
                   stream, events, workload, produced>>
    /\ http' = NoHttp

Next ==
    \/ \E s \in Sessions : Connect(s)
    \/ \E s \in Sessions : TakeMessage(s)
    \/ \E s \in Sessions : KeepAlive(s)
    \/ \E s \in Sessions : Disconnect(s)
    \/ \E s \in Streams : StreamProgress(s)
    \/ \E s \in Streams : DrainProgress(s)
    \/ \E s \in Streams : SendResponse(s)
    \/ \E s \in Streams : TaskStart(s)
    \/ \E s \in Streams : TaskStep(s)
    \/ \E s \in Sessions, body \in Bodies : receive_message(s, body)
    \/ \E r \in McpRequests, body \in Bodies : mcp_streamable_http_endpoint(r, body)
    \/ \E r \in McpRequests : McpDisconnect(r)

Spec == Init /\ [][Next]_vars
SpecProgress == InitWith(ProgressWorkloads) /\ [][Next]_vars
SpecTokens == InitWith(TokenWorkloads) /\ [][Next]_vars
SpecSteps == InitWith(StepWorkloads) /\ [][Next]_vars
SpecHttp == InitWith(HttpWorkloads) /\ [][Next]_vars
SpecRouter == InitWith(RouterWorkloads) /\ [][Next]_vars
SpecClamp == InitWith(ClampWorkloads) /\ [][Next]_vars

\* The event loop runs every coroutine that is ready: a task that was
\* created or whose sleep is over goes on, a generator whose queue get or
\* whose 0.1s timeout returns goes on.  The clients owe nothing: no
\* fairness for their requests, their disconnects or the 30s timeout.
Fairness ==
    /\ \A s \in Sessions : WF_vars(TakeMessage(s))
    /\ \A s \in Streams :
          /\ WF_vars(TaskStart(s)) /\ WF_vars(TaskStep(s))
          /\ WF_vars(StreamProgress(s)) /\ WF_vars(DrainProgress(s))
          /\ WF_vars(SendResponse(s))
SpecFair == InitWith(LiveWorkloads) /\ [][Next]_vars /\ Fairness

(***************************************************************************)
(* Properties.                                                             *)
(***************************************************************************)
\* a message event that wraps a progress notification / a response
IsProgressEvent(e) == e.event = "message" /\ "method" \in DOMAIN e.data
IsResponseEvent(e) == e.event = "message" /\ "id" \in DOMAIN e.data
\* the progress events of a stream, in the order they were emitted
ProgressEvents(s) == SelectSeq(stream[s], IsProgressEvent)
\* the positions of a stream that belong to invocation k
ProgressPositions(s, k) ==
    {j \in 1..Len(stream[s]) : IsProgressEvent(stream[s][j]) /\ stream[s][j].inv = k}
ResponsePositions(s, k) ==
    {j \in 1..Len(stream[s]) : IsResponseEvent(stream[s][j]) /\ stream[s][j].inv = k}
InFlight(t) == t.status \in {"created", "sleeping"}

\* C1: on both transports the progress notifications are emitted in the
\* order the handler enqueued them (what was emitted, followed by what is
\* still queued, is what was enqueued), and once the final response of an
\* invocation is on the stream none of its notifications is still queued
\* and no event of that invocation follows it.
C1_ProgressThenResponse ==
    \A s \in Streams :
        /\ LET emitted == ProgressEvents(s)
               all == [i \in 1..Len(produced[s]) |->
                          [event |-> "message",
                           data |-> json_dumps(produced[s][i].notification),
                           inv |-> produced[s][i].inv]]
           IN /\ Len(emitted) + Len(sse_queue[s]) = Len(all)
              /\ \A i \in 1..Len(emitted) : emitted[i] = all[i]
              /\ \A i \in 1..Len(sse_queue[s]) :
                    sse_queue[s][i] = produced[s][Len(emitted) + i]
        /\ \A j \in 1..Len(stream[s]) :
              IsResponseEvent(stream[s][j]) =>
                 /\ \A q \in 1..Len(sse_queue[s]) :
                       sse_queue[s][q].inv # stream[s][j].inv
                 /\ \A i \in (j + 1)..Len(stream[s]) :
                       stream[s][i].inv # stream[s][j].inv

\* an invocation with two notifications and a response has been emitted on
\* a session and on a /mcp stream
C1_Witness ==
    \E s \in Sessions, r \in McpRequests :
        \A x \in {s, r} :
            \E j \in 1..Len(stream[x]) :
                /\ IsResponseEvent(stream[x][j])
                /\ Cardinality(ProgressPositions(x, stream[x][j].inv)) >= 2

\* what "the invocation of s is resolved" means: its task is finished, all
\* its notifications are emitted, and its response, if it has one, is the
\* last message event of the stream
Resolved(s) ==
    /\ ~InFlight(task[s])
    /\ sse_queue[s] = <<>>
    /\ (task[s].status = "done" /\ task[s].response # None) =>
          /\ ResponsePositions(s, task[s].inv) # {}
          /\ \A j \in 1..Len(stream[s]) :
                stream[s][j].event = "message" => stream[s][j].inv <= task[s].inv

\* C2: a session takes the next message from its inbound queue only when
\* the invocation before it is resolved; hence at most one task of a
\* session is in flight, whatever is POSTed meanwhile.
C2_OneMessageAtATime ==
    [][\A s \in Sessions :
          Len(request_queue'[s]) < Len(request_queue[s]) => Resolved(s)]_vars

\* a second message was taken after the notifications and the response of
\* the first were emitted
C2_Witness ==
    \E s \in Sessions :
        /\ task[s].inv = 2
        /\ ProgressPositions(s, 1) # {}
        /\ ResponsePositions(s, 1) # {}

\* C3: the two registries hold the same session ids.
C3_RegistriesAgree == DOMAIN session_queues = DOMAIN session_sse_queues

\* one session is closed while another is registered
C3_Witness ==
    \E s, t \in Sessions :
        /\ pc[s] = "closed"
        /\ t \in DOMAIN session_queues /\ t \in DOMAIN session_sse_queues

\* a body that is a JSON-RPC message: an object whose params is not null
IsMessageBody(body) == body.json = "object" /\ body.params.kind # "null"

\* C4: a closed session is in neither registry, whichever way it was
\* closed, a second cleanup would change nothing, and a message POSTed to
\* it is answered 404.
C4_ClosedIsGone ==
    \A s \in Sessions :
        pc[s] = "closed" =>
            /\ s \notin DOMAIN session_queues
            /\ s \notin DOMAIN session_sse_queues
            /\ cleanup_request_queue(session_queues, s) = session_queues
            /\ cleanup_sse_queue(session_sse_queues, s) = session_sse_queues
            /\ (http.endpoint = "/message" /\ http.sid = s /\ IsMessageBody(http.body))
                  => http.status = 404

\* a session closed by an exception of its task has been POSTed a message
\* and the POST was answered 404
C4_Witness ==
    \E s \in Sessions :
        /\ pc[s] = "closed" /\ task[s].status = "failed"
        /\ s \notin DOMAIN session_queues
        /\ http.endpoint = "/message" /\ http.sid = s
        /\ IsMessageBody(http.body) /\ http.status = 404

\* C5: the first event of a /sse stream is the endpoint event with the
\* path /message/{session_id}; when it is emitted both queues of the
\* session are registered; a POST to a registered session is never
\* answered 404.
C5_EndpointFirst ==
    [][/\ \A s \in Sessions :
             (stream[s] = <<>> /\ stream'[s] # <<>>) =>
                 /\ Len(stream'[s]) = 1
                 /\ stream'[s][1].event = "endpoint"
                 /\ stream'[s][1].data = [path |-> "/message/", session_id |-> s]
                 /\ s \in DOMAIN session_queues'
                 /\ s \in DOMAIN session_sse_queues'
       /\ \A s \in Sessions :
             (stream[s] # <<>>) => stream'[s][1] = stream[s][1]
       /\ (http'.endpoint = "/message" /\ http'.sid \in DOMAIN session_queues)
             => http'.status # 404]_vars

\* a message POSTed to the path of the endpoint event was accepted and
\* answered on the stream
C5_Witness ==
    \E s \in Sessions :
        /\ Len(stream[s]) >= 2
        /\ stream[s][1].event = "endpoint"
        /\ stream[s][2].event = "message"

\* the step of a POST /message/{session_id}: http' is its reply
IsMessagePost == http'.endpoint = "/message"
IsValidJson(body) == body.json \in {"null", "array", "object"}

\* C6 (as claimed): a POST of a JSON-RPC message to a registered session
\* appends exactly that message to the inbound queue of that session and
\* is answered 202, whatever the session is doing.
C6_Accepted202 ==
    [][(IsMessagePost /\ http'.sid \in DOMAIN session_queues
            /\ IsMessageBody(http'.body)) =>
          /\ http'.status = 202
          /\ request_queue' =
                [request_queue EXCEPT ![http'.sid] = Append(@, http'.body)]]_vars

\* C7 (as claimed): a POST of a valid JSON body to a session id that is
\* not registered is answered 404 and changes no queue and no registry.
C7_UnknownSession404 ==
    [][(IsMessagePost /\ http'.sid \notin DOMAIN session_queues
            /\ IsValidJson(http'.body)) =>
          /\ http'.status = 404
          /\ UNCHANGED <<request_queue, sse_queue, session_queues,
                         session_sse_queues>>]_vars

\* C8 (as claimed): a body that is not valid JSON, POSTed to /mcp or to a
\* registered session, is answered 400; no task is created, nothing is
\* enqueued and the registry is unchanged.
C8_InvalidJson400 ==
    [][(/\ http'.endpoint \in {"/mcp", "/message"}
        /\ ~IsValidJson(http'.body)
        /\ http'.endpoint = "/message" => http'.sid \in DOMAIN session_queues) =>
          /\ http'.status = 400
          /\ UNCHANGED <<task, pc, request_queue, sse_queue, session_queues,
                         session_sse_queues>>]_vars

\* the JSON text of a token
TokenText(T) ==
    [quoted |-> T.type = "str",
     text |-> IF T.type = "str" THEN T.s ELSE ToString(T.i)]
NumberText(n) == [quoted |-> FALSE, text |-> ToString(n)]

\* the invocation of s is a tools/call of search_with_progress
IsSearchCall(m) ==
    /\ m.json = "object" /\ m.method = PyStr("tools/call")
    /\ m.params.kind = "dict"
    /\ m.params.name = PyStr("search_with_progress")
    /\ m.params.arguments.kind = "dict"
\* the progressToken of a message, Absent if it has none
TokenOf(m) ==
    IF m.json = "object" /\ m.params.kind = "dict" /\ m.params.meta.kind = "dict"
    THEN m.params.meta.progressToken
    ELSE Absent

\* C9: when the result of a search_with_progress call with steps = n in
\* 1..6 and a token T is on the stream, exactly n progress notifications
\* of that call precede it, the k-th with progress k, all with total n + 1
\* and progressToken T.
C9_SearchProgress ==
    \A s \in Streams :
        LET m == task[s].message
            n == m.params.arguments.steps.i
            T == TokenOf(m)
            P == ProgressPositions(s, task[s].inv)
            R == ResponsePositions(s, task[s].inv)
        IN (/\ IsSearchCall(m)
            /\ m.params.arguments.steps.type = "int" /\ n \in 1..6
            /\ T \notin {Absent, None}
            /\ R # {}) =>
              /\ Cardinality(P) = n
              /\ \A r \in R : "result" \in DOMAIN stream[s][r].data
              /\ \A j \in P :
                    LET params == stream[s][j].data.params
                        k == Cardinality({i \in P : i <= j})
                    IN /\ \A r \in R : j < r
                       /\ params.progress = NumberText(k)
                       /\ params.total = NumberText(n + 1)
                       /\ "progressToken" \in DOMAIN params
                       /\ params.progressToken = TokenText(T)

\* the call with steps = 3 and a token has its result on the stream
C9_Witness ==
    \E s \in Streams :
        /\ IsSearchCall(task[s].message)
        /\ task[s].message.params.arguments.steps = PyInt(3)
        /\ TokenOf(task[s].message) = PyStr("T")
        /\ ResponsePositions(s, task[s].inv) # {}
        /\ Cardinality(ProgressPositions(s, task[s].inv)) = 3

\* C10: every progress notification of a call without a progressToken,
\* queued or emitted, has no progressToken field, and every one of a call
\* with token T carries T, on both transports.
C10_TokenField ==
    \A s \in Streams :
        LET T == TokenOf(task[s].message)
        IN /\ \A j \in ProgressPositions(s, task[s].inv) :
                 LET params == stream[s][j].data.params
                 IN /\ T = Absent => "progressToken" \notin DOMAIN params
                    /\ T \notin {Absent, None} =>
                          /\ "progressToken" \in DOMAIN params
                          /\ params.progressToken = TokenText(T)
           /\ \A q \in 1..Len(sse_queue[s]) :
                 LET params == sse_queue[s][q].notification.params
                 IN sse_queue[s][q].inv = task[s].inv =>
                       /\ T = Absent => "progressToken" \notin DOMAIN params
                       /\ T \notin {Absent, None} =>
                             /\ "progressToken" \in DOMAIN params
                             /\ params.progressToken = T

\* a notification with the token 0 was emitted on a session, and one
\* without a token on a /mcp stream
C10_Witness ==
    /\ \E s \in Sessions : \E j \in 1..Len(stream[s]) :
          /\ IsProgressEvent(stream[s][j])
          /\ "progressToken" \in DOMAIN stream[s][j].data.params
          /\ stream[s][j].data.params.progressToken = [quoted |-> FALSE, text |-> "0"]
    /\ \E r \in McpRequests : \E j \in 1..Len(stream[r]) :
          /\ IsProgressEvent(stream[r][j])
          /\ "progressToken" \notin DOMAIN stream[r][j].data.params

\* the message of an invocation is the notification notifications/initialized
IsInitialized(m) ==
    m.json = "object" /\ m.method = PyStr("notifications/initialized")

\* C11: an invocation of notifications/initialized puts no event on its
\* stream, neither a notification nor a response; once its task is done
\* the generator can leave the inner loop, and the step that leaves it
\* changes no stream, ends a /mcp stream, and puts a session that the
\* client did not close back at its wait on the inbound queue, registered
\* in both registries.
C11_InitializedIsSilent ==
    [][\A s \in Streams :
          IsInitialized(task[s].message) =>
             /\ \A j \in 1..Len(stream'[s]) :
                   stream'[s][j].event = "message" => stream'[s][j].inv # task[s].inv
             /\ (pc[s] = "streaming" /\ task[s].status = "done") =>
                   /\ ENABLED SendResponse(s)
                   /\ pc'[s] # "streaming" =>
                         /\ stream' = stream
                         /\ s \in McpRequests => pc'[s] = "closed"
                         /\ (s \in Sessions /\ s \in DOMAIN session_queues') =>
                               /\ pc'[s] = "waiting"
                               /\ s \in DOMAIN session_sse_queues']_vars

\* the notification was processed on a session, which waits again, and on
\* a /mcp stream, which ended, and neither stream got an event for it
C11_Witness ==
    \E s \in Sessions, r \in McpRequests :
        /\ IsInitialized(task[s].message) /\ task[s].status = "done"
        /\ pc[s] = "waiting" /\ s \in DOMAIN session_queues
        /\ stream[s] = <<EndpointEvent(s)>>
        /\ IsInitialized(task[r].message) /\ task[r].status = "done"
        /\ pc[r] = "closed" /\ stream[r] = <<>>

\* C12 (as claimed): for a message without an id, whatever its method,
\* the router returns None and no response event is emitted for it.
C12_NoIdNoResponse ==
    \A s \in Streams :
        (task[s].message.json = "object" /\ task[s].message.id = Absent) =>
            /\ task[s].status = "done" => task[s].response = None
            /\ ResponsePositions(s, task[s].inv) = {}

\* a JSON-RPC message whose params and _meta, if any, are objects
IsWellFormed(m) ==
    /\ m.json = "object"
    /\ m.params.kind \in {"absent", "dict"}
    /\ m.params.meta.kind \in {"absent", "dict"}
Methods == {"initialize", "tools/list", "tools/call", "notifications/initialized"}
Tools == {"add_numbers", "multiply_numbers", "get_greeting", "search_with_progress"}
IsUnknownMethod(m) ==
    IsWellFormed(m) /\ m.method \notin {PyStr(x) : x \in Methods}
IsUnknownTool(m) ==
    /\ IsWellFormed(m) /\ m.method = PyStr("tools/call")
    /\ m.params.name \notin {PyStr(x) : x \in Tools}
\* the JSON text of the id of a message, null if it has none
IdText(m) ==
    IF m.id = Absent THEN [quoted |-> FALSE, text |-> "null"]
    ELSE [quoted |-> m.id.type = "str",
          text |-> IF m.id.type = "str" THEN m.id.s ELSE ToString(m.id.i)]
\* e is the event of an error response with this code to message m
IsErrorEvent(e, m, code) ==
    /\ e.event = "message"
    /\ DOMAIN e.data = {"jsonrpc", "id", "error"}
    /\ e.data.error.code = code
    /\ e.data.id = IdText(m)

\* C13: the task of a request with an unknown method, or of a tools/call
\* that names an unknown tool, does not fail; the only event of the
\* invocation is a message event with the error -32601 and the id of the
\* request; once the task is done that event can be emitted, and the step
\* that emits it ends a /mcp stream and leaves a session registered and
\* waiting for its next message.
C13_NotFoundIsAResponse ==
    [][\A s \in Streams :
          LET m == task[s].message
          IN (IsUnknownMethod(m) \/ IsUnknownTool(m)) =>
               /\ task[s].status # "failed"
               /\ sse_queue[s] = <<>>
               /\ (pc[s] = "streaming" /\ task[s].status = "done") =>
                     ENABLED (SendResponse(s) /\ stream'[s] # stream[s])
               /\ (pc[s] = "streaming" /\ stream'[s] # stream[s]) =>
                     /\ stream'[s] = Append(stream[s], stream'[s][Len(stream'[s])])
                     /\ stream'[s][Len(stream'[s])].inv = task[s].inv
                     /\ IsErrorEvent(stream'[s][Len(stream'[s])], m, -32601)
                     /\ s \in McpRequests => pc'[s] = "closed"
                     /\ s \in Sessions =>
                           /\ pc'[s] = "waiting"
                           /\ s \in DOMAIN session_queues'
                           /\ s \in DOMAIN session_sse_queues'
               /\ (s \in Sessions /\ pc[s] = "streaming" /\ pc'[s] = "waiting") =>
                     stream'[s] # stream[s]]_vars

\* a session answered an unknown method and an unknown tool with -32601,
\* one after the other
C13_Witness ==
    \E s \in Sessions :
        /\ Len(stream[s]) = 3 /\ pc[s] = "waiting"
        /\ s \in DOMAIN session_queues
        /\ \E m1, m2 \in workload :
              /\ IsUnknownMethod(m1) /\ IsUnknownTool(m2)
              /\ {stream[s][2].inv, stream[s][3].inv} = {1, 2}
              /\ \/ IsErrorEvent(stream[s][2], m1, -32601)
                       /\ IsErrorEvent(stream[s][3], m2, -32601)
                 \/ IsErrorEvent(stream[s][2], m2, -32601)
                       /\ IsErrorEvent(stream[s][3], m1, -32601)

\* a tools/call of a registered tool whose handler raises an exception
IsRaisingCall(m) ==
    /\ IsWellFormed(m) /\ m.method = PyStr("tools/call")
    /\ m.params.name \in {PyStr(x) : x \in Tools}
    /\ HandlerRaises(ToolName(m), Arguments(m))

\* C14: the task of a well-formed message never ends with an exception;
\* when the handler of a tools/call raises, the only event of the
\* invocation is a message event with the error -32603 and the id of the
\* request; once the task is done that event can be emitted, and the step
\* that emits it ends a /mcp stream and leaves a session registered and
\* waiting for its next message.
C14_HandlerExceptionIsAResponse ==
    [][\A s \in Streams :
          LET m == task[s].message
          IN /\ IsWellFormed(m) => task[s].status # "failed"
             /\ IsRaisingCall(m) =>
                  /\ (pc[s] = "streaming" /\ task[s].status = "done") =>
                        ENABLED (SendResponse(s) /\ stream'[s] # stream[s])
                  /\ (pc[s] = "streaming" /\ stream'[s] # stream[s]) =>
                        /\ stream'[s] = Append(stream[s], stream'[s][Len(stream'[s])])
                        /\ stream'[s][Len(stream'[s])].inv = task[s].inv
                        /\ IsErrorEvent(stream'[s][Len(stream'[s])], m, -32603)
                        /\ s \in McpRequests => pc'[s] = "closed"
                        /\ s \in Sessions =>
                              /\ pc'[s] = "waiting"
                              /\ s \in DOMAIN session_queues'
                              /\ s \in DOMAIN session_sse_queues'
                  /\ (s \in Sessions /\ pc[s] = "streaming" /\ pc'[s] = "waiting") =>
                        stream'[s] # stream[s]]_vars

\* a session answered add_numbers with ill-typed arguments with -32603
\* and then answered the next call with a result
C14_Witness ==
    \E s \in Sessions :
        /\ Len(stream[s]) = 3 /\ pc[s] = "waiting"
        /\ s \in DOMAIN session_queues
        /\ IsErrorEvent(stream[s][2], M_add_illtyped, -32603)
        /\ stream[s][2].inv = 1
        /\ stream[s][3].inv = 2 /\ "result" \in DOMAIN stream[s][3].data

\* a tools/call that names a registered tool
IsRegisteredCall(m) ==
    /\ m.json = "object" /\ m.method = PyStr("tools/call")
    /\ m.params.kind = "dict"
    /\ m.params.name \in {PyStr(x) : x \in Tools}
\* a response with result.content[0].text and no error member
HasText(r) ==
    /\ DOMAIN r = {"jsonrpc", "id", "result"}
    /\ "content" \in DOMAIN r.result
    /\ Len(r.result.content) >= 1
    /\ "text" \in DOMAIN r.result.content[1]

\* C15 (as claimed): the response to every tools/call that names a
\* registered tool contains result.content[0].text and no error member.
C15_RegisteredToolHasText ==
    \A s \in Streams :
        IsRegisteredCall(task[s].message) =>
            /\ task[s].status = "done" => HasText(task[s].response)
            /\ \A j \in ResponsePositions(s, task[s].inv) : HasText(stream[s][j].data)

\* C15 (amended): the response to every well-formed tools/call that names
\* a registered tool and whose handler raises no exception contains
\* result.content[0].text and no error member.
C15_RegisteredToolHasTextUnlessRaised ==
    \A s \in Streams :
        (/\ IsRegisteredCall(task[s].message)
         /\ IsWellFormed(task[s].message)
         /\ ~IsRaisingCall(task[s].message)) =>
            /\ task[s].status = "done" => HasText(task[s].response)
            /\ \A j \in ResponsePositions(s, task[s].inv) : HasText(stream[s][j].data)

\* the result of multiply_numbers is on a session's stream and the result
\* of get_greeting on a /mcp stream
C15_Witness ==
    \E s \in Sessions, r \in McpRequests :
        /\ task[s].message = M_multiply /\ task[r].message = M_greeting
        /\ \A x \in {s, r} :
              /\ ResponsePositions(x, task[x].inv) # {}
              /\ \A j \in ResponsePositions(x, task[x].inv) : HasText(stream[x][j].data)

\* C16: the response the router returns for a message with an id carries
\* that id, value and type; the response event a stream emits is the one
\* of the invocation in progress and carries the JSON text of the id of
\* its request, in quotes exactly when the id is a string.
C16_IdEchoed ==
    [][\A s \in Streams :
          LET m == task[s].message
              n == Len(stream'[s])
          IN (m.json = "object" /\ m.id # Absent) =>
               /\ (task[s].status = "done" /\ task[s].response # None) =>
                     task[s].response.id = m.id
               /\ (/\ pc[s] = "streaming" /\ stream'[s] # stream[s]
                   /\ IsResponseEvent(stream'[s][n])) =>
                     /\ stream'[s][n].inv = task[s].inv
                     /\ stream'[s][n].data.id = IdText(m)
                     /\ stream'[s][n].data.id.quoted = (m.id.type = "str")]_vars

\* a session answered initialize (id 1) and tools/list (id "1"), each
\* with the id of its own request
C16_Witness ==
    \E s \in Sessions :
        /\ Len(stream[s]) = 3
        /\ IsResponseEvent(stream[s][2]) /\ "result" \in DOMAIN stream[s][2].data
        /\ IsResponseEvent(stream[s][3]) /\ "result" \in DOMAIN stream[s][3].data
        /\ \E j, k \in 2..3 :
              /\ stream[s][j].data.id = [quoted |-> FALSE, text |-> "1"]
              /\ "protocolVersion" \in DOMAIN stream[s][j].data.result
              /\ stream[s][k].data.id = [quoted |-> TRUE, text |-> "1"]
              /\ "tools" \in DOMAIN stream[s][k].data.result

\* C17: the step that emits a keep-alive comment is taken by a session
\* waiting on its inbound queue, and leaves it waiting, registered in both
\* registries, with its queue and its task untouched; a waiting session
\* with a message in its queue can take it, however many keep-alives it
\* has emitted.
C17_KeepAliveKeepsWaiting ==
    [][\A s \in Sessions :
          /\ (/\ Len(stream'[s]) = Len(stream[s]) + 1
              /\ stream'[s][Len(stream'[s])].event = "comment") =>
                /\ stream'[s][Len(stream'[s])] = KeepAliveEvent
                /\ pc[s] = "waiting" /\ pc'[s] = "waiting"
                /\ s \in DOMAIN session_queues'
                /\ s \in DOMAIN session_sse_queues'
                /\ request_queue'[s] = request_queue[s]
                /\ task'[s] = task[s]
          /\ (pc[s] = "waiting" /\ request_queue[s] # <<>>) =>
                ENABLED TakeMessage(s)]_vars

\* a session emitted a keep-alive and then answered a message
C17_Witness ==
    \E s \in Sessions :
        /\ Len(stream[s]) = 3
        /\ stream[s][2] = KeepAliveEvent
        /\ IsResponseEvent(stream[s][3])
        /\ pc[s] = "waiting" /\ s \in DOMAIN session_queues

\* the state of one stream: its generator, task, queue and events
StreamState(s) == <<pc[s], task[s], sse_queue[s], stream[s]>>

\* C18 (as claimed): a POST /mcp with a valid JSON body is answered with
\* a stream and creates one task for its message, and no stream ever gets
\* a second one; the stream carries message
\* events only (no keep-alive, no endpoint event) and at most one
\* response; once the task is done and the queue empty the generator can
\* finish, the step that emits the response ends the stream, and an ended
\* stream never changes again; no step of the request changes a registry
\* or an inbound queue.
C18_McpRunsOnce ==
    [][\A r \in McpRequests :
          /\ (http'.endpoint = "/mcp" /\ http'.sid = r /\ IsValidJson(http'.body)) =>
                /\ http'.status = 200
                /\ pc[r] = "idle" /\ pc'[r] = "streaming"
                /\ task'[r].message = http'.body /\ task'[r].status = "created"
          /\ task'[r].inv <= 1
          /\ task[r] # NoTask => task'[r].message = task[r].message
          /\ \A j \in 1..Len(stream'[r]) : stream'[r][j].event = "message"
          /\ Cardinality(ResponsePositions(r, 1)) <= 1
          /\ (pc[r] = "streaming" /\ done(task[r]) /\ sse_queue[r] = <<>>) =>
                ENABLED (SendResponse(r) /\ pc'[r] = "closed")
          /\ (/\ pc[r] = "streaming" /\ stream'[r] # stream[r]
              /\ IsResponseEvent(stream'[r][Len(stream'[r])])) => pc'[r] = "closed"
          /\ pc[r] = "closed" => (pc'[r] = "closed" /\ stream'[r] = stream[r])
          /\ (StreamState(r)' # StreamState(r) \/ http'.endpoint = "/mcp") =>
                UNCHANGED <<session_queues, session_sse_queues, request_queue>>]_vars

\* C19: no stream waits for another one.  Whatever the other streams are
\* doing, a created task can start, a sleeping task can go on, a queued
\* notification can be emitted, a finished invocation can send its
\* response and a waiting session can take its next message; a step
\* changes the state of at most one stream; a message POSTed to a
\* registered session is accepted and appended to the inbound queue of
\* that session and of no other.
C19_SessionsRunConcurrently ==
    [][/\ \A s \in Streams :
             /\ task[s].status = "created" => ENABLED TaskStart(s)
             /\ task[s].status = "sleeping" => ENABLED TaskStep(s)
             /\ (pc[s] = "streaming" /\ sse_queue[s] # <<>>) =>
                   ENABLED StreamProgress(s)
             /\ (pc[s] = "streaming" /\ done(task[s]) /\ sse_queue[s] = <<>>) =>
                   ENABLED SendResponse(s)
             /\ (s \in Sessions /\ pc[s] = "waiting" /\ request_queue[s] # <<>>) =>
                   ENABLED TakeMessage(s)
             /\ \A t \in Streams \ {s} :
                   StreamState(s)' # StreamState(s) => StreamState(t)' = StreamState(t)
       /\ (/\ http'.endpoint = "/message"
           /\ http'.sid \in DOMAIN session_queues
           /\ IsMessageBody(http'.body)) =>
             /\ http'.status = 200
             /\ request_queue' =
                   [request_queue EXCEPT ![http'.sid] = Append(@, http'.body)]
             /\ \A t \in Streams : StreamState(t)' = StreamState(t)]_vars

\* while the invocation of a session is in flight, after its first
\* notification, another stream has emitted all the notifications and the
\* response of an invocation of its own
C19_Witness ==
    \E s \in Sessions, t \in Streams :
        /\ s # t
        /\ pc[s] = "streaming" /\ task[s].status = "sleeping"
        /\ ProgressPositions(s, task[s].inv) # {}
        /\ ResponsePositions(s, task[s].inv) = {}
        /\ task[t].status = "done" /\ sse_queue[t] = <<>>
        /\ Cardinality(ProgressPositions(t, task[t].inv)) = 2
        /\ ResponsePositions(t, task[t].inv) # {}

\* C20: the step that closes a session removes it from both registries
\* and leaves its task and its progress queue as they are; the task of a
\* closed session can still start and go on; the session stays closed and
\* unregistered, its stream never changes again, and a step of its task
\* changes no stream and no registry.
C20_TaskOutlivesSession ==
    [][\A s \in Sessions :
          /\ (pc[s] # "closed" /\ pc'[s] = "closed") =>
                /\ task'[s] = task[s]
                /\ sse_queue'[s] = sse_queue[s]
                /\ s \notin DOMAIN session_queues'
                /\ s \notin DOMAIN session_sse_queues'
          /\ pc[s] = "closed" =>
                /\ task[s].status = "created" => ENABLED TaskStart(s)
                /\ task[s].status = "sleeping" => ENABLED TaskStep(s)
                /\ pc'[s] = "closed"
                /\ s \notin DOMAIN session_queues'
                /\ s \notin DOMAIN session_sse_queues'
                /\ stream'[s] = stream[s]
                /\ task'[s] # task[s] =>
                      /\ stream' = stream
                      /\ UNCHANGED <<session_queues, session_sse_queues>>]_vars

\* a session was closed by its client before any event of its invocation
\* was emitted; the task has run to its end, and its two notifications
\* and its result were never emitted
C20_Witness ==
    \E s \in Sessions :
        /\ pc[s] = "closed" /\ s \notin DOMAIN session_queues
        /\ task[s].status = "done" /\ task[s].response # None
        /\ stream[s] = <<EndpointEvent(s)>>
        /\ Len(sse_queue[s]) = 2

\* what session t has in the registries, in its inbound queue and in its
\* generator and task
SessionState(t) ==
    <<t \in DOMAIN session_queues, t \in DOMAIN session_sse_queues,
      request_queue[t], StreamState(t)>>
\* session s was closed because its task ended with an exception
ClosedByException(s) == pc[s] = "closed" /\ task[s].status = "failed"

\* C23: the step in which the generator of a session meets the exception
\* of its task closes that session, removes it from both registries and
\* changes nothing of any other stream (registry entries, inbound queue,
\* generator, task, progress queue, events); and next to a session closed
\* that way every other session is still served: its task can start and
\* go on, its notifications and its response can be emitted, it can take
\* its next message, and a message POSTed to it is accepted.
C23_ErrorStaysInItsSession ==
    [][\A s \in Sessions :
          /\ (pc[s] = "streaming" /\ task[s].status = "failed" /\ pc'[s] = "closed") =>
                /\ s \notin DOMAIN session_queues'
                /\ s \notin DOMAIN session_sse_queues'
                /\ DOMAIN session_queues' = DOMAIN session_queues \ {s}
                /\ DOMAIN session_sse_queues' = DOMAIN session_sse_queues \ {s}
                /\ \A t \in Sessions \ {s} : SessionState(t)' = SessionState(t)
                /\ \A r \in McpRequests : StreamState(r)' = StreamState(r)
          /\ ClosedByException(s) =>
                \A t \in Streams \ {s} :
                   /\ task[t].status = "created" => ENABLED TaskStart(t)
                   /\ task[t].status = "sleeping" => ENABLED TaskStep(t)
                   /\ (pc[t] = "streaming" /\ sse_queue[t] # <<>>) =>
                         ENABLED StreamProgress(t)
                   /\ (pc[t] = "streaming" /\ done(task[t]) /\ sse_queue[t] = <<>>) =>
                         ENABLED SendResponse(t)
                   /\ (t \in Sessions /\ pc[t] = "waiting" /\ request_queue[t] # <<>>) =>
                         ENABLED TakeMessage(t)
                   /\ (/\ http'.endpoint = "/message" /\ http'.sid = t
                       /\ t \in DOMAIN session_queues
                       /\ IsMessageBody(http'.body)) =>
                         /\ http'.status = 200
                         /\ request_queue'[t] = Append(request_queue[t], http'.body)]_vars

\* a session was closed by the exception of its task while another
\* session, still registered, is in the middle of an invocation: one of
\* its notifications is emitted, its task sleeps
C23_Witness ==
    \E s \in Sessions, t \in Sessions :
        /\ s # t /\ ClosedByException(s)
        /\ s \notin DOMAIN session_queues
        /\ t \in DOMAIN session_queues /\ t \in DOMAIN session_sse_queues
        /\ pc[t] = "streaming" /\ task[t].status = "sleeping"
        /\ ProgressPositions(t, task[t].inv) # {}

\* max(0, min(n, 6))
Clamp(n) == IF n < 0 THEN 0 ELSE IF n > 6 THEN 6 ELSE n
\* the notifications the current invocation of s has enqueued so far
Enqueued(s) == {q \in 1..Len(produced[s]) : produced[s][q].inv = task[s].inv}

\* C24: a search_with_progress call with an integer steps = n never fails
\* and can always take its next step; it enqueues at most max(0, min(n, 6))
\* notifications, the k-th with progress k, all with total min(n, 6) + 1;
\* when it is done it has enqueued exactly that many and its response is
\* a result with text; when its response is on the stream exactly that
\* many notifications of it were emitted.
C24_StepLoopIsBounded ==
    \A s \in Streams :
        LET m == task[s].message
            n == m.params.arguments.steps.i
        IN (IsSearchCall(m) /\ m.params.arguments.steps.type = "int") =>
              /\ task[s].status # "failed"
              /\ task[s].status = "created" => ENABLED TaskStart(s)
              /\ task[s].status = "sleeping" =>
                    (ENABLED TaskStep(s) /\ task[s].i <= Clamp(n))
              /\ Cardinality(Enqueued(s)) <= Clamp(n)
              /\ \A q \in Enqueued(s) :
                    LET params == produced[s][q].notification.params
                    IN /\ params.total = PyInt(Min(n, 6) + 1)
                       /\ params.progress =
                             PyInt(Cardinality({p \in Enqueued(s) : p <= q}))
              /\ task[s].status = "done" =>
                    /\ Cardinality(Enqueued(s)) = Clamp(n)
                    /\ HasText(task[s].response)
              /\ ResponsePositions(s, task[s].inv) # {} =>
                    Cardinality(ProgressPositions(s, task[s].inv)) = Clamp(n)

\* the call with steps = 7 was answered on a session after exactly 6
\* notifications with total 7, and the call with steps = -1 on a /mcp
\* stream after none
C24_Witness ==
    \E s \in Sessions, r \in McpRequests :
        /\ IsSearchCall(task[s].message)
        /\ task[s].message.params.arguments.steps = PyInt(7)
        /\ ResponsePositions(s, task[s].inv) # {}
        /\ Cardinality(ProgressPositions(s, task[s].inv)) = 6
        /\ \A j \in ProgressPositions(s, task[s].inv) :
              stream[s][j].data.params.total = NumberText(7)
        /\ IsSearchCall(task[r].message)
        /\ task[r].message.params.arguments.steps = PyInt(-1)
        /\ ResponsePositions(r, 1) # {}
        /\ \A j \in ResponsePositions(r, 1) : HasText(stream[r][j].data)
        /\ ProgressPositions(r, 1) = {}

\* C25: a session that waits for its next inbound message has no task in
\* flight and an empty progress queue; while it runs an invocation, every
\* notification in its progress queue is one of that invocation; and on
\* its stream no event of an invocation follows an event of a later one.
C25_QueueEmptyBetweenInvocations ==
    \A s \in Sessions :
        /\ pc[s] = "waiting" =>
              (sse_queue[s] = <<>> /\ ~InFlight(task[s]))
        /\ pc[s] = "streaming" =>
              \A q \in 1..Len(sse_queue[s]) : sse_queue[s][q].inv = task[s].inv
        /\ \A j, k \in 1..Len(stream[s]) :
              (/\ j < k
               /\ stream[s][j].event = "message"
               /\ stream[s][k].event = "message") =>
                  stream[s][j].inv <= stream[s][k].inv

\* a session waits after its second invocation; the notifications and
\* the response of the first and of the second are on its stream
C25_Witness ==
    \E s \in Sessions :
        /\ pc[s] = "waiting" /\ task[s].inv = 2
        /\ \A k \in 1..2 :
              /\ ProgressPositions(s, k) # {}
              /\ ResponsePositions(s, k) # {}

\* the progressToken field of a notification, Absent if it has none
TokenField(params) ==
    IF "progressToken" \in DOMAIN params THEN params.progressToken ELSE Absent
\* the token a notification for message m carries: none for None
CarriedToken(m) == IF TokenOf(m) = None THEN Absent ELSE TokenOf(m)

\* C26: a step changes the progress queue and the events of at most one
\* stream.  A notification is put on the queue of stream s only by the
\* task of s, with the invocation number and the token of the message s
\* is processing; the message a session processes is the head of its own
\* inbound queue, which holds only what was POSTed to that session; an
\* event that appears on stream s is the head of the queue of s or the
\* response of the task of s to the message of s.
C26_StreamsAreIsolated ==
    [][\A s \in Streams :
          /\ \A t \in Streams \ {s} :
                (stream'[s] # stream[s] \/ sse_queue'[s] # sse_queue[s]) =>
                   (stream'[t] = stream[t] /\ sse_queue'[t] = sse_queue[t])
          /\ Len(sse_queue'[s]) > Len(sse_queue[s]) =>
                LET new == sse_queue'[s][Len(sse_queue'[s])]
                IN /\ InFlight(task[s]) /\ task'[s] # task[s]
                   /\ sse_queue'[s] = Append(sse_queue[s], new)
                   /\ new.inv = task[s].inv
                   /\ TokenField(new.notification.params) = CarriedToken(task[s].message)
          /\ (s \in Sessions /\ Len(request_queue'[s]) > Len(request_queue[s])) =>
                /\ http'.endpoint = "/message" /\ http'.sid = s
                /\ request_queue'[s] = Append(request_queue[s], http'.body)
          /\ task'[s].inv # task[s].inv =>
                /\ task'[s].inv = task[s].inv + 1
                /\ s \in Sessions =>
                      (/\ request_queue[s] # <<>>
                       /\ task'[s].message = Head(request_queue[s]))
                /\ s \in McpRequests =>
                      (/\ http'.endpoint = "/mcp" /\ http'.sid = s
                       /\ task'[s].message = http'.body)
          /\ (/\ Len(stream'[s]) > Len(stream[s])
              /\ stream'[s][Len(stream'[s])].event = "message") =>
                LET new == stream'[s][Len(stream'[s])]
                IN /\ pc[s] = "streaming"
                   /\ stream'[s] = Append(stream[s], new)
                   /\ new.inv = task[s].inv
                   /\ \/ /\ sse_queue[s] # <<>>
                         /\ sse_queue'[s] = Tail(sse_queue[s])
                         /\ new = MessageEvent(Head(sse_queue[s]).notification,
                                               Head(sse_queue[s]).inv)
                      \/ /\ task[s].status = "done"
                         /\ task[s].response = handle_request(task[s].message)
                         /\ new = MessageEvent(task[s].response, task[s].inv)]_vars

\* a session and a /mcp stream processed calls with different tokens and
\* ids: each has emitted a notification with its own token and the
\* response with its own id
C26_Witness ==
    \E s \in Sessions, r \in McpRequests :
        /\ TokenOf(task[s].message) # TokenOf(task[r].message)
        /\ task[s].message.id # task[r].message.id
        /\ \A x \in {s, r} :
              /\ \E j \in ProgressPositions(x, task[x].inv) :
                    TokenField(stream[x][j].data.params)
                       = TokenText(TokenOf(task[x].message))
              /\ \E j \in ResponsePositions(x, task[x].inv) :
                    stream[x][j].data.id = IdText(task[x].message)

\* the messages session s has accepted so far, while it is open: the ones
\* it has taken and the ones in its inbound queue
Accepted(s) == task[s].inv + Len(request_queue[s])
\* the k-th message of session s was taken and its invocation is over
Processed(s, k) ==
    \/ task[s].inv > k
    \/ task[s].inv = k /\ pc[s] = "waiting"

\* session s is closed, or has processed every message it accepted
Quiet(s) ==
    \/ pc[s] \in {"idle", "closed"}
    \/ pc[s] = "waiting" /\ request_queue[s] = <<>>

\* C27: a message accepted by POST /message/{session_id} is appended to
\* the inbound queue of the session; the queue changes only by that and
\* by the generator taking its head, which starts exactly one invocation
\* for it; no invocation has more than one response event; when the
\* session waits again, the request it has just processed, if it had an
\* id, has exactly one response event; and the k-th accepted message of a
\* session is eventually processed unless the session is closed.
C27_AcceptedIsProcessedInOrder ==
    /\ [][\A s \in Sessions :
             /\ (/\ http'.endpoint = "/message" /\ http'.sid = s
                 /\ http'.status = 200) =>
                   request_queue'[s] = Append(request_queue[s], http'.body)
             /\ request_queue'[s] # request_queue[s] =>
                   \/ /\ http'.endpoint = "/message" /\ http'.sid = s
                      /\ http'.status = 200
                   \/ /\ request_queue[s] # <<>>
                      /\ request_queue'[s] = Tail(request_queue[s])
                      /\ task'[s].message = Head(request_queue[s])
                      /\ task'[s].status = "created"
                      /\ task'[s].inv = task[s].inv + 1
             /\ task'[s].inv # task[s].inv =>
                   request_queue'[s] = Tail(request_queue[s])
             /\ \A k \in 1..MaxEvents :
                   Cardinality({j \in 1..Len(stream'[s]) :
                                  /\ IsResponseEvent(stream'[s][j])
                                  /\ stream'[s][j].inv = k}) <= 1]_vars
    /\ [](\A s \in Sessions :
             (/\ pc[s] = "waiting" /\ task[s].inv >= 1
              /\ task[s].message.id # Absent) =>
                Cardinality(ResponsePositions(s, task[s].inv)) = 1)
    /\ \A s \in Sessions : []<>Quiet(s)
    /\ \A s \in Sessions : \A k \in 1..(MaxEvents - s) :
          (pc[s] # "closed" /\ Accepted(s) >= k)
             ~> (pc[s] = "closed" \/ Processed(s, k))

\* a session has taken and processed two accepted messages and waits
\* again with an empty inbound queue; the second had an id and its
\* response is on the stream
C27_Witness ==
    \E s \in Sessions :
        /\ pc[s] = "waiting" /\ task[s].inv = 2
        /\ request_queue[s] = <<>>
        /\ task[s].message.id # Absent
        /\ ResponsePositions(s, 2) # {}

\* C21 (as claimed): the session id is looked up before the body is
\* parsed: a POST of text that is not JSON to a session id that is not
\* registered is answered 404, and a POST is answered 400 only when its
\* session is registered.
C21_SessionCheckedFirst ==
    [][IsMessagePost =>
          /\ (/\ http'.sid \notin DOMAIN session_queues
              /\ json_loads_error(http'.body) = "JSONDecodeError") =>
                http'.status = 404
          /\ http'.status = 400 => http'.sid \in DOMAIN session_queues]_vars

====
